---- MODULE Spec2Model ----
(***************************************************************************)
(* Job distribution and delivery pipeline of the job-application backend:  *)
(*   - the send worker  (backend/tasks/email_tasks.py,                     *)
(*                       backend/services/smtp_sender.py,                  *)
(*                       backend/utils/error_handler.py)                   *)
(*   - the allocator    (backend/services/distribution_engine.py)          *)
(* The worker is modelled as a set of Celery worker processes taking       *)
(* messages from the broker; every access to Redis, Firestore or the mail  *)
(* transport is a step of its own, so that workers interleave between      *)
(* them.  The model has no clock: a step may take any amount of time, a    *)
(* queued message may be delivered at any moment at or after its           *)
(* countdown, and a lock may reach its TTL at any moment.                  *)
(***************************************************************************)
EXTENDS Integers, Sequences, FiniteSets, Bags, TLC

VARIABLES
    db,            \* core.firebase.db: TRUE when Firestore is initialised
    redis,         \* email_lock:{user_id}:{job_id} -> task id holding it, or NoLock
    broker,        \* bag of queued send_application_email messages
    enqueued,      \* number of apply_async calls made by the scheduler
    redelivered,   \* number of deliveries the broker did not retire (at-least-once)
    delivered,     \* number of deliveries of a message to a worker
    wk,            \* per worker process: position in send_application_email and its locals
    applications,  \* bag of documents of the "applications" collection (the ledger)
    jobs,          \* per job document: applicationCount, appliedByUsers
    users,         \* per user document: applicationsToday, applicationsTotal
    system_logs,   \* bag of documents of the "system_logs" collection
    sent,          \* per (user, job): messages the mail transport has accepted
    ended,         \* per (user, job): tally of the invocations that have ended
    last,          \* the outcome of the invocation that ended in the last step, if any
    dist,          \* state of one run of DistributionEngine.distribute
    sched          \* state of the queueing loop of job_distributor.main

vars == <<db, redis, broker, enqueued, redelivered, delivered, wk, applications, jobs, users,
          system_logs, sent, ended, last, dist, sched>>

-----------------------------------------------------------------------------
(* Bounds of the model *)

MaxEnqueue == 2       \* apply_async calls of the scheduler
MaxRedeliver == 1     \* deliveries that leave the message on the broker
MaxDeliver == 5       \* deliveries in all, retries and redeliveries included

(* Program constants *)

MAX_RETRIES == 3      \* @celery_app.task(max_retries=3)
RETRY_BASE == 60      \* countdown = 60 * (2 ** retry_num)

UserIds == {"u1", "u2"}
JobIds == {"j1", "j2"}
Pairs == UserIds \X JobIds
Workers == {1, 2}

NoLock == 0           \* no key email_lock:{user_id}:{job_id} in Redis

-----------------------------------------------------------------------------
(* Strings are sequences of tokens; `x in s` of the source is Contains.   *)

Contains(s, tok) == \E i \in 1..Len(s) : s[i] = tok

RECURSIVE LStrip(_)
LStrip(s) == IF s # <<>> /\ Head(s) = " " THEN LStrip(Tail(s)) ELSE s

RECURSIVE RStrip(_)
RStrip(s) ==
    IF s # <<>> /\ s[Len(s)] = " " THEN RStrip(SubSeq(s, 1, Len(s) - 1)) ELSE s

\* str.strip()
Strip(s) == RStrip(LStrip(s))

RECURSIVE Pow2(_)
Pow2(n) == IF n = 0 THEN 1 ELSE 2 * Pow2(n - 1)

\* Values of job["recruiterEmail"] found in job documents.
RecruiterEmails == { <<>>, <<" ">>, <<"h", "r">>, <<" ", "h", "r", "@", "c", "o", " ">> }

\* Job documents as db.collection("jobs").document(job_id).get() returns them.
JobDocs ==
    {[exists |-> FALSE, recruiterEmail |-> <<>>]}
        \cup [exists : {TRUE}, recruiterEmail : RecruiterEmails]

\* User documents as db.collection("users").document(user_id).get() returns them.
UserDocs == [exists : BOOLEAN]

\* user["smtpPassword"] of the fetched user: no such key, a token that
\* encryptor.decrypt rejects, or one it decrypts.
SmtpPasswords == {"absent", "corrupt", "valid"}

\* What happens inside send_via_smtp: the message is accepted, or an exception
\* of class exc with text msg is raised by smtplib.
TransportOutcomes ==
    { [exc |-> "none", msg |-> <<>>],
      [exc |-> "SMTPAuthenticationError", msg |-> <<"535", "BadCredentials">>],
      [exc |-> "SMTPAuthenticationError", msg |-> <<"534", "WebLoginRequired">>],
      [exc |-> "Exception", msg |-> <<"timed", "out">>] }

-----------------------------------------------------------------------------
(* Send worker: send_application_email and what it calls *)

NoResult == [success |-> FALSE, error |-> <<>>]

\* A worker process between two tasks.
IdleWk ==
    [pc |-> "idle", id |-> 0, userId |-> "", jobId |-> "", retries |-> 0,
     locked |-> FALSE, smtp_result |-> NoResult, exc |-> ""]

Running(w) == wk[w].pc # "idle"
PairOf(w) == <<wk[w].userId, wk[w].jobId>>

\* Mutant: the lock is set without nx=True.
LockFree_NoNx(p) == TRUE

\* redis_client.set(lock_key, task_id, nx=True, ex=600) succeeds iff no key
LockFree(p) == redis[p] = NoLock

\* Mutant: the duplicate query is left out.
Existing_Never(u, j) == FALSE

\* Mutant: the duplicate query matches rows of status "sent" only.
Existing_SentOnly(u, j) ==
    \E a \in BagToSet(applications) :
        a.userId = u /\ a.jobId = j /\ a.status = "sent"

\* db.collection("applications").where(userId ==).where(jobId ==).limit(1).get()
Existing(u, j) == \E a \in BagToSet(applications) : a.userId = u /\ a.jobId = j

\* not recipient or "@" not in recipient
InvalidRecipient(recipient) == recipient = <<>> \/ ~Contains(recipient, "@")

\* send_via_smtp: every exception is turned into {"success": False, "error": str(e)}
SendViaSmtp(o) ==
    IF o.exc = "none" THEN [success |-> TRUE, error |-> <<>>]
    ELSE [success |-> FALSE, error |-> o.msg]

\* "sent" if smtp_result["success"] else "failed"
AppStatus(r) == IF r.success THEN "sent" ELSE "failed"

\* "Authentication" in error_msg or "535" in error_msg
IsAuthError(error_msg) ==
    Contains(error_msg, "Authentication") \/ Contains(error_msg, "535")

\* countdown = 60 * (2 ** retry_num)
RetryCountdown(retry_num) == RETRY_BASE * Pow2(retry_num)

\* Task.retry: MaxRetriesExceededError once request.retries + 1 > max_retries
RetriesExceeded(retry_num) == retry_num + 1 > MAX_RETRIES

\* log_error_to_db: a no-op without db
LogError(errorType, u, j) ==
    IF db
    THEN system_logs (+) SetToBag({[errorType |-> errorType, userId |-> u, jobId |-> j]})
    ELSE system_logs

\* The tally of pair p after one more invocation ended with this status.
Tally(p, status) ==
    [ended EXCEPT ![p] =
        IF status = "success" THEN [@ EXCEPT !.success = @ + 1]
        ELSE IF status = "skipped" THEN [@ EXCEPT !.skipped = @ + 1]
        ELSE IF status = "crashed" THEN [@ EXCEPT !.faulted = TRUE, !.crashed = TRUE]
        ELSE [@ EXCEPT !.faulted = TRUE]]

NoOutcome ==
    [userId |-> "", jobId |-> "", retries |-> 0, status |-> "", reason |-> "",
     exc |-> ""]

\* How invocation r ended: exc is "" when send_via_smtp was not called, "none"
\* when the transport accepted the message, else the exception it met.
Outcome(r, status, reason) ==
    [userId |-> r.userId, jobId |-> r.jobId, retries |-> r.retries,
     status |-> status, reason |-> reason, exc |-> r.exc]

\* The invocation r of worker w ends: return {"status": status, "reason":
\* reason}, or the Retry raised by self.retry (status "retry").
End(w, r, status, reason) ==
    /\ wk' = [wk EXCEPT ![w] = IdleWk]
    /\ ended' = Tally(<<r.userId, r.jobId>>, status)
    /\ last' = Outcome(r, status, reason)

Return(w, status, reason) == End(w, wk[w], status, reason)

\* The invocation goes on to its next step.
Goto(w, pc) ==
    /\ wk' = [wk EXCEPT ![w].pc = pc]
    /\ UNCHANGED ended
    /\ last' = NoOutcome

\* send_application_email.apply_async(args=[user_id, job_id], countdown=...) in
\* job_distributor.main; distribute never hands a job to a user already in the
\* job's appliedByUsers.  The delay is the scheduler's and plays no part here.
\* Users and jobs being alike, the first pair enqueued is called (u1, j1).
Enqueue(u, j) ==
    /\ enqueued < MaxEnqueue
    /\ enqueued = 0 => (u = "u1" /\ j = "j1")
    /\ u \notin jobs[j].appliedByUsers
    /\ enqueued' = enqueued + 1
    /\ broker' = broker (+) SetToBag({[id |-> enqueued + 1, userId |-> u, jobId |-> j,
                                        retries |-> 0, countdown |-> 0]})
    /\ last' = NoOutcome
    /\ UNCHANGED <<sched, dist, db, redis, redelivered, delivered, wk, applications, jobs, users,
                   system_logs, sent, ended>>

\* Lines 24-42: a worker receives message m; the db check, then the lock.
\* ack = FALSE is a delivery after which the broker still holds the message.
\* The worker processes being alike, the first free one takes the message.
Start(w) ==
    /\ wk[w].pc = "idle"
    /\ \A v \in Workers : v < w => Running(v)
    /\ delivered < MaxDeliver
    /\ delivered' = delivered + 1
    /\ \E m \in BagToSet(broker), ack \in BOOLEAN :
        /\ ack \/ redelivered < MaxRedeliver
        /\ broker' = IF ack THEN broker (-) SetToBag({m}) ELSE broker
        /\ redelivered' = IF ack THEN redelivered ELSE redelivered + 1
        /\ LET me == [IdleWk EXCEPT !.id = m.id, !.userId = m.userId,
                                    !.jobId = m.jobId, !.retries = m.retries]
               p == <<m.userId, m.jobId>>
           IN  IF ~db
               THEN /\ wk' = [wk EXCEPT ![w] = [me EXCEPT !.pc = "except"]]
                    /\ last' = NoOutcome
                    /\ UNCHANGED <<redis, ended>>
               ELSE IF ~LockFree(p)
               THEN /\ End(w, me, "skipped", "duplicate_lock")
                    /\ UNCHANGED redis
               ELSE /\ redis' = [redis EXCEPT ![p] = m.id]
                    /\ wk' = [wk EXCEPT ![w] = [me EXCEPT !.pc = "fetch", !.locked = TRUE]]
                    /\ last' = NoOutcome
                    /\ UNCHANGED ended
    /\ UNCHANGED <<sched, dist, db, enqueued, applications, jobs, users, system_logs, sent>>

\* Lines 44-68: fetch the user and the job, validate the recruiter email.
Fetch(w) ==
    /\ wk[w].pc = "fetch"
    /\ \E user_doc \in UserDocs, job_doc \in JobDocs :
        LET recipient == Strip(job_doc.recruiterEmail) IN
        IF ~user_doc.exists
        THEN Return(w, "failed", "user_not_found") /\ UNCHANGED system_logs
        ELSE IF ~job_doc.exists
        THEN Return(w, "failed", "job_not_found") /\ UNCHANGED system_logs
        ELSE IF InvalidRecipient(recipient)
        THEN /\ system_logs' = LogError("email_bounced", wk[w].userId, wk[w].jobId)
             /\ Return(w, "failed", "no_recruiter_email")
        ELSE Goto(w, "check_dup") /\ UNCHANGED system_logs
    /\ UNCHANGED <<sched, dist, db, redis, broker, enqueued, redelivered, delivered, applications, jobs,
                   users, sent>>

\* Lines 70-80: the duplicate check against the ledger.
CheckDup(w) ==
    /\ wk[w].pc = "check_dup"
    /\ IF Existing(wk[w].userId, wk[w].jobId)
       THEN Return(w, "skipped", "already_applied")
       ELSE Goto(w, "compose")
    /\ UNCHANGED <<sched, dist, db, redis, broker, enqueued, redelivered, delivered, applications, jobs,
                   users, system_logs, sent>>

\* Lines 82-85: generate_email_with_ai returns an email or raises.
Compose(w) ==
    /\ wk[w].pc = "compose"
    /\ \E raised \in BOOLEAN : Goto(w, IF raised THEN "except" ELSE "decrypt")
    /\ UNCHANGED <<sched, dist, db, redis, broker, enqueued, redelivered, delivered, applications, jobs,
                   users, system_logs, sent>>

\* Lines 87-98: encryptor.decrypt(user["smtpPassword"]).  Nothing before this
\* step reads the smtpPassword of the fetched user, so its value is drawn here.
Decrypt(w) ==
    /\ wk[w].pc = "decrypt"
    /\ \E smtpPassword \in SmtpPasswords :
       IF smtpPassword = "absent"
       THEN Return(w, "failed", "smtp_password_missing") /\ UNCHANGED system_logs
       ELSE IF smtpPassword = "corrupt"
       THEN /\ system_logs' = LogError("smtp_auth_failed", wk[w].userId, "-")
            /\ Return(w, "failed", "smtp_password_decrypt_failed")
       ELSE Goto(w, "send") /\ UNCHANGED system_logs
    /\ UNCHANGED <<sched, dist, db, redis, broker, enqueued, redelivered, delivered, applications, jobs,
                   users, sent>>

\* Lines 100-110: send_via_smtp; the transport accepts the message or fails.
Send(w) ==
    /\ wk[w].pc = "send"
    /\ \E o \in TransportOutcomes :
        /\ wk' = [wk EXCEPT ![w].pc = "log_app", ![w].smtp_result = SendViaSmtp(o),
                            ![w].exc = o.exc]
        /\ sent' = IF o.exc = "none"
                   THEN [sent EXCEPT ![PairOf(w)] = @ + 1] ELSE sent
    /\ last' = NoOutcome
    /\ UNCHANGED <<sched, dist, db, redis, broker, enqueued, redelivered, delivered, applications, jobs,
                   users, system_logs, ended>>

\* Lines 112-131 and 150-161: the application record is added whatever the
\* result; a failure is then classified.
LogApp(w) ==
    /\ wk[w].pc = "log_app"
    /\ applications' = applications (+)
            SetToBag({[userId |-> wk[w].userId, jobId |-> wk[w].jobId,
                       status |-> AppStatus(wk[w].smtp_result)]})
    /\ IF wk[w].smtp_result.success
       THEN Goto(w, "update_job") /\ UNCHANGED system_logs
       ELSE IF IsAuthError(wk[w].smtp_result.error)
       THEN /\ system_logs' = LogError("smtp_auth_failed", wk[w].userId, "-")
            /\ Return(w, "failed", "smtp_auth")
       ELSE Goto(w, "except") /\ UNCHANGED system_logs
    /\ UNCHANGED <<sched, dist, db, redis, broker, enqueued, redelivered, delivered, jobs, users, sent>>

\* Mutant: applicationCount is written as a value read before, not incremented.
UpdateJob_Overwrite(w) ==
    /\ wk[w].pc = "update_job"
    /\ jobs' = [jobs EXCEPT ![wk[w].jobId] =
                  [applicationCount |-> 1,
                   appliedByUsers |-> @.appliedByUsers \cup {wk[w].userId}]]
    /\ Goto(w, "update_user")
    /\ UNCHANGED <<sched, dist, db, redis, broker, enqueued, redelivered, delivered, applications,
                   users, system_logs, sent>>

\* Mutant: the job update forgets the ArrayUnion.
UpdateJob_NoUnion(w) ==
    /\ wk[w].pc = "update_job"
    /\ jobs' = [jobs EXCEPT ![wk[w].jobId].applicationCount = @ + 1]
    /\ Goto(w, "update_user")
    /\ UNCHANGED <<sched, dist, db, redis, broker, enqueued, redelivered, delivered, applications,
                   users, system_logs, sent>>

\* Lines 134-139: ArrayUnion and Increment on the job document.
UpdateJob(w) ==
    /\ wk[w].pc = "update_job"
    /\ jobs' = [jobs EXCEPT ![wk[w].jobId] =
                  [applicationCount |-> @.applicationCount + 1,
                   appliedByUsers |-> @.appliedByUsers \cup {wk[w].userId}]]
    /\ Goto(w, "update_user")
    /\ UNCHANGED <<sched, dist, db, redis, broker, enqueued, redelivered, delivered, applications, users,
                   system_logs, sent>>

\* Lines 141-149: Increment on the user document, then return success.
UpdateUser(w) ==
    /\ wk[w].pc = "update_user"
    /\ users' = [users EXCEPT ![wk[w].userId] =
                   [applicationsToday |-> @.applicationsToday + 1,
                    applicationsTotal |-> @.applicationsTotal + 1]]
    /\ Return(w, "success", "")
    /\ UNCHANGED <<sched, dist, db, redis, broker, enqueued, redelivered, delivered, applications, jobs,
                   system_logs, sent>>

\* Lines 169-180: self.retry requeues the task, or the retries are exhausted.
\* Past max_retries, self.retry(exc=e) raises MaxRetriesExceededError or e
\* itself, as the Celery release has it; e is caught by no handler and the
\* task fails with it.
Except(w) ==
    /\ wk[w].pc = "except"
    /\ IF RetriesExceeded(wk[w].retries)
       THEN \/ /\ system_logs' = LogError("unknown", wk[w].userId, wk[w].jobId)
               /\ Return(w, "failed", "max_retries")
               /\ UNCHANGED broker
            \/ /\ Return(w, "failed", "exception")
               /\ UNCHANGED <<system_logs, broker>>
       ELSE /\ broker' = broker (+)
                    SetToBag({[id |-> wk[w].id, userId |-> wk[w].userId,
                               jobId |-> wk[w].jobId, retries |-> wk[w].retries + 1,
                               countdown |-> RetryCountdown(wk[w].retries)]})
            /\ Return(w, "retry", "")
            /\ UNCHANGED system_logs
    /\ UNCHANGED <<sched, dist, db, redis, enqueued, redelivered, delivered, applications, jobs, users, sent>>

\* Some invocation that acquired the lock of p is still running.
HolderRunning(p) == \E w \in Workers : Running(w) /\ wk[w].locked /\ PairOf(w) = p

\* Mutant: the key is set without ex=600 and never expires.
LockExpire_Never(p) == FALSE /\ UNCHANGED vars

\* The key email_lock:{user_id}:{job_id} reaches its TTL (ex=600) after the
\* invocation that set it has ended; no code path deletes the key earlier.
LockExpire(p) ==
    /\ redis[p] # NoLock
    /\ ~HolderRunning(p)
    /\ redis' = [redis EXCEPT ![p] = NoLock]
    /\ last' = NoOutcome
    /\ UNCHANGED <<sched, dist, db, broker, enqueued, redelivered, delivered, wk, applications, jobs, users,
                   system_logs, sent, ended>>

\* The key reaches its TTL while the invocation that set it is still running
\* (no step of the task has a timeout below the TTL).
LockExpireHeld(p) ==
    /\ redis[p] # NoLock
    /\ HolderRunning(p)
    /\ redis' = [redis EXCEPT ![p] = NoLock]
    /\ last' = NoOutcome
    /\ UNCHANGED <<sched, dist, db, broker, enqueued, redelivered, delivered, wk, applications, jobs, users,
                   system_logs, sent, ended>>

\* A worker process dies in the middle of an invocation.
Crash(w) ==
    /\ Running(w)
    /\ End(w, wk[w], "crashed", "")
    /\ UNCHANGED <<sched, dist, db, redis, broker, enqueued, redelivered, delivered, applications, jobs,
                   users, system_logs, sent>>

WorkerInit ==
    /\ db \in BOOLEAN
    /\ redis = [p \in Pairs |-> NoLock]
    /\ broker = EmptyBag
    /\ enqueued = 0
    /\ redelivered = 0
    /\ delivered = 0
    /\ wk = [w \in Workers |-> IdleWk]
    /\ applications = EmptyBag
    /\ jobs = [j \in JobIds |-> [applicationCount |-> 0, appliedByUsers |-> {}]]
    /\ users = [u \in UserIds |-> [applicationsToday |-> 0, applicationsTotal |-> 0]]
    /\ system_logs = EmptyBag
    /\ sent = [p \in Pairs |-> 0]
    /\ ended = [p \in Pairs |-> [success |-> 0, skipped |-> 0, faulted |-> FALSE, crashed |-> FALSE]]
    /\ last = NoOutcome

-----------------------------------------------------------------------------
(* DistributionEngine.distribute (services/distribution_engine.py) *)

MaxUsers == 10        \* users of a call without application history
MaxJobs == 50         \* jobs of a call without application history
MaxHistUsers == 3     \* users of a call with application history
MaxHistJobs == 2      \* jobs of a call with application history
MaxShuffle == 3       \* longest job list of which every order is explored
MaxCatUsers == 2      \* users of a call with users and jobs of two categories
MaxCatJobs == 2       \* jobs of a call with users and jobs of two categories

\* Values of the field jobCategory of user and job documents
JobCategories == {"Software Developer", "Marketing"}

TARGET_MAX == 20
TARGET_MIN == 15
MAX_SHARING == 3

Min(a, b) == IF a <= b THEN a ELSE b

\* ceil(a / b) for naturals a and b > 0
CeilDiv(a, b) == (a + b - 1) \div b

\* Mutant: the sharing factor is not capped by MAX_SHARING.
SharingFactor_NoMax(total_users, total_jobs) ==
    IF total_jobs >= TARGET_MIN * total_users THEN 1
    ELSE CeilDiv(TARGET_MIN * total_users, total_jobs)

\* Stage 1, sharing_factor: ratio = total_jobs / total_users is compared and
\* divided as the exact quotient (ratio >= c  iff  total_jobs >= c * total_users).
SharingFactor(total_users, total_jobs) ==
    IF total_jobs >= TARGET_MAX * total_users THEN 1
    ELSE IF total_jobs >= TARGET_MIN * total_users THEN 1
    ELSE Min(CeilDiv(TARGET_MIN * total_users, total_jobs), MAX_SHARING)

\* Mutant: the branch ratio >= TARGET_MAX is missing, so the target is int(ratio).
TargetPerUser_NoCap(total_users, total_jobs) ==
    IF total_jobs >= TARGET_MIN * total_users THEN total_jobs \div total_users
    ELSE Min(TARGET_MIN,
             (total_jobs * SharingFactor(total_users, total_jobs)) \div total_users)

\* Stage 1, target_per_user: int(ratio) and int(ratio * sharing_factor)
TargetPerUser(total_users, total_jobs) ==
    IF total_jobs >= TARGET_MAX * total_users THEN TARGET_MAX
    ELSE IF total_jobs >= TARGET_MIN * total_users THEN total_jobs \div total_users
    ELSE Min(TARGET_MIN,
             (total_jobs * SharingFactor(total_users, total_jobs)) \div total_users)

\* The place of users[k] in sorted(users, key=user_counts): the sort is stable.
Rank(us, user_counts, k) ==
    1 + Cardinality({m \in 1..Len(us) :
                        \/ user_counts[us[m]] < user_counts[us[k]]
                        \/ user_counts[us[m]] = user_counts[us[k]] /\ m < k})

\* Mutant: only the first user is visited in a round.
SortedUsers_FirstOnly(us, user_counts) == <<us[1]>>

SortedUsers(us, user_counts) ==
    [pos \in 1..Len(us) |-> us[CHOOSE k \in 1..Len(us) : Rank(us, user_counts, k) = pos]]

Reverse(s) == [k \in 1..Len(s) |-> s[Len(s) + 1 - k]]

\* random.shuffle(jobs): every order of a short list, two orders of a long one
Shuffles(js) ==
    IF Len(js) <= MaxShuffle
    THEN {[k \in 1..Len(js) |-> js[f[k]]] : f \in Permutations(1..Len(js))}
    ELSE {js, Reverse(js)}

\* Mutant: a job is closed only once its slot count is negative.
NoSlotsLeft_OffByOne(job_slots, job_id) == job_slots[job_id] < 0

\* if job_slots.get(job_id, 0) <= 0: continue
NoSlotsLeft(job_slots, job_id) == job_slots[job_id] <= 0

\* Mutant: only the users added in this call are tested, not those of the database.
AlreadyApplied_BatchOnly(user_id, job) ==
    /\ user_id \in job.appliedByUsers
    /\ \A k \in 1..Len(dist.input) :
          dist.input[k].jobId = job.jobId => user_id \notin dist.input[k].appliedByUsers

\* Mutant: the test of the user against job["appliedByUsers"] is dropped.
AlreadyApplied_Never(user_id, job) == FALSE

\* if user_id in job.get("appliedByUsers", []): continue
AlreadyApplied(user_id, job) == user_id \in job.appliedByUsers

\* The arguments of a call: users and jobs of one category without application
\* history, short lists with every history, and short lists of users and jobs
\* of two categories.
DistInputs ==
    {[users |-> [i \in 1..U |-> i],
      user_category |-> [i \in 1..U |-> "Software Developer"],
      jobs |-> [k \in 1..J |-> [jobId |-> k, jobCategory |-> "Software Developer",
                                 appliedByUsers |-> {}]]] :
        U \in 0..MaxUsers, J \in 0..MaxJobs}
    \cup
    UNION {{[users |-> [i \in 1..U |-> i],
             user_category |-> [i \in 1..U |-> "Software Developer"],
             jobs |-> [k \in 1..J |-> [jobId |-> k, jobCategory |-> "Software Developer",
                                        appliedByUsers |-> h[k]]]] :
               h \in [1..J -> SUBSET (1..U)]} :
             U \in 1..MaxHistUsers, J \in 1..MaxHistJobs}
    \cup
    UNION {{[users |-> [i \in 1..U |-> i],
             user_category |-> uc,
             jobs |-> [k \in 1..J |-> [jobId |-> k, jobCategory |-> jc[k],
                                        appliedByUsers |-> {}]]] :
               uc \in [1..U -> JobCategories], jc \in [1..J -> JobCategories]} :
             U \in 1..MaxCatUsers, J \in 1..MaxCatJobs}

DistIdle ==
    [phase |-> "off", users |-> <<>>, user_category |-> <<>>, jobs |-> <<>>,
     input |-> <<>>,
     sharing_factor |-> 0, target_per_user |-> 0, job_slots |-> <<>>,
     share_group_counter |-> 0, job_share_groups |-> <<>>, assignments |-> <<>>,
     user_counts |-> <<>>, changed |-> FALSE, sorted_users |-> <<>>, idx |-> 0]

\* distribute(users, jobs) is called; input keeps the jobs as they were passed.
Called(in) ==
    [DistIdle EXCEPT !.phase = "call", !.users = in.users,
                     !.user_category = in.user_category, !.jobs = in.jobs,
                     !.input = in.jobs]

WorkerVars == <<db, redis, broker, enqueued, redelivered, delivered, wk, applications, jobs,
                users, system_logs, sent, ended, last>>

\* Lines 19-59: the empty case, the shuffle, stages 1 and 2 and the initial maps.
Distribute ==
    /\ dist.phase = "call"
    /\ IF dist.users = <<>> \/ dist.jobs = <<>>
       THEN dist' = [dist EXCEPT !.phase = "done",
                                 !.assignments = [u \in {dist.users[i] : i \in 1..Len(dist.users)}
                                                    |-> <<>>]]
       ELSE \E shuffled \in Shuffles(dist.jobs) :
              LET total_users == Len(dist.users)
                  total_jobs == Len(shuffled)
                  uids == {dist.users[i] : i \in 1..total_users}
                  sharing_factor == SharingFactor(total_users, total_jobs)
              IN dist' = [dist EXCEPT
                    !.phase = "while",
                    !.jobs = shuffled,
                    !.sharing_factor = sharing_factor,
                    !.target_per_user = TargetPerUser(total_users, total_jobs),
                    !.job_slots = [job_id \in {shuffled[k].jobId : k \in 1..total_jobs}
                                     |-> sharing_factor],
                    !.share_group_counter = 0,
                    !.job_share_groups = <<>>,
                    !.assignments = [u \in uids |-> <<>>],
                    !.user_counts = [u \in uids |-> 0],
                    !.changed = TRUE]
    /\ UNCHANGED <<WorkerVars, sched>>

\* Mutant: the round does not clear the flag before the users are visited.
Round_NoReset ==
    /\ dist.phase = "while"
    /\ dist.changed
    /\ dist' = [dist EXCEPT !.phase = "for",
                            !.sorted_users = SortedUsers(dist.users, dist.user_counts),
                            !.idx = 1]
    /\ UNCHANGED <<WorkerVars, sched>>

\* Lines 60-63: a new round of the while loop.
Round ==
    /\ dist.phase = "while"
    /\ dist.changed
    /\ dist' = [dist EXCEPT !.phase = "for",
                            !.changed = FALSE,
                            !.sorted_users = SortedUsers(dist.users, dist.user_counts),
                            !.idx = 1]
    /\ UNCHANGED <<WorkerVars, sched>>

\* Mutant: positions are counted from 1.
PositionInGroup_OneBased(group_users) == Len(group_users) + 1

\* position_in_group = len(group_users)
PositionInGroup(group_users) == Len(group_users)

\* Lines 65-107: one pass of the body of "for user in sorted_users".
UserStep ==
    /\ dist.phase = "for"
    /\ LET user_id == dist.sorted_users[dist.idx]
           open == {k \in 1..Len(dist.jobs) :
                       /\ ~NoSlotsLeft(dist.job_slots, dist.jobs[k].jobId)
                       /\ ~AlreadyApplied(user_id, dist.jobs[k])}
           after == [dist EXCEPT !.idx = @ + 1,
                                 !.phase = IF dist.idx = Len(dist.sorted_users)
                                           THEN "while" ELSE "for"]
       IN IF dist.user_counts[user_id] >= dist.target_per_user \/ open = {}
          THEN dist' = after
          ELSE LET k == CHOOSE n \in open : \A m \in open : n <= m
                   job_id == dist.jobs[k].jobId
                   first == job_id \notin DOMAIN dist.job_share_groups
                   counter == IF first THEN dist.share_group_counter + 1
                              ELSE dist.share_group_counter
                   group == IF first THEN [group_num |-> counter, group_users |-> <<>>]
                            ELSE dist.job_share_groups[job_id]
                   job_copy == [jobId |-> job_id,
                                share_group |-> group.group_num,
                                share_position |-> PositionInGroup(group.group_users)]
               IN dist' = [after EXCEPT
                     !.share_group_counter = counter,
                     !.job_share_groups =
                         (job_id :> [group EXCEPT !.group_users = Append(@, user_id)])
                             @@ dist.job_share_groups,
                     !.assignments[user_id] = Append(@, job_copy),
                     !.job_slots[job_id] = @ - 1,
                     !.user_counts[user_id] = @ + 1,
                     !.jobs[k].appliedByUsers = @ \cup {user_id},
                     !.changed = TRUE]
    /\ UNCHANGED <<WorkerVars, sched>>

\* Line 109: the loop ends after a round without an assignment.
DistReturn ==
    /\ dist.phase = "while"
    /\ ~dist.changed
    /\ dist' = [dist EXCEPT !.phase = "done"]
    /\ UNCHANGED <<WorkerVars, sched>>

-----------------------------------------------------------------------------
(* The queueing loop of job_distributor.main (cron/job_distributor.py) *)

MaxSchedUsers == 3    \* users of a scheduled call
MaxSchedJobs == 15    \* jobs of the longest scheduled call

\* Mutant: the range of position 2 is missing.
STAGGER_RANGES_Short == << <<0, 0>>, <<3 * 3600, 4 * 3600>> >>

\* Mutant: the range of position 2 starts where that of position 1 ends.
STAGGER_RANGES_Adjacent == << <<0, 0>>, <<3 * 3600, 4 * 3600>>, <<4 * 3600, 8 * 3600>> >>

\* Stagger offsets for shared jobs (seconds), by share position
STAGGER_RANGES == << <<0, 0>>, <<3 * 3600, 4 * 3600>>, <<6 * 3600, 8 * 3600>> >>

\* random.randint(low, high): the two ends of the closed range
RandInt(low, high) == {low, high}

NoInstr ==
    [user_id |-> 0, job_id |-> 0, i |-> 0, base_delay |-> 0,
     share_position |-> 0, stagger |-> 0, delay_seconds |-> 0]

NoPrev == [i |-> 0, base_delay |-> 0]

\* sched.queued counts the apply_async calls per (user_id, job_id); of the
\* messages, the last one of the user at hand is kept in full (last) and the one
\* before it by its base delay (prev); of those of one job, sched.watch, the
\* share position and the delay are kept (seen).
SchedIdle ==
    [phase |-> "off", watch |-> 0, u |-> 0, user_offset |-> 0, i |-> 0,
     queued |-> EmptyBag, total_queued |-> 0, last |-> NoInstr, prev |-> NoPrev,
     seen |-> {}]

\* The calls that are scheduled: one category with users and 1, 2 or
\* MaxSchedJobs jobs.
SchedInputs ==
    {[users |-> [i \in 1..U |-> i],
      user_category |-> [i \in 1..U |-> "Software Developer"],
      jobs |-> [k \in 1..J |-> [jobId |-> k, jobCategory |-> "Software Developer",
                                 appliedByUsers |-> {}]]] :
        U \in 1..MaxSchedUsers, J \in {1, 2, MaxSchedJobs}}

\* Mutant: the first job of each list is left out.
AssignedJobs_Tail ==
    IF dist.assignments[dist.users[sched.u]] = <<>> THEN <<>>
    ELSE Tail(dist.assignments[dist.users[sched.u]])

\* for i, job in enumerate(assigned_jobs): the list of the user at hand
AssignedJobs == dist.assignments[dist.users[sched.u]]

\* Lines 126-130: the next item of assignments.items() and its user_offset; the
\* loop starts when distribute has returned and ends after the last user.
SchedUser ==
    /\ dist.phase = "done"
    /\ \/ sched.phase = "wait"
       \/ sched.phase = "jobs" /\ sched.i = Len(AssignedJobs)
    /\ IF sched.u + 1 > Len(dist.users)
       THEN sched' = [sched EXCEPT !.phase = "done"]
       ELSE \E user_offset \in RandInt(0, 600) :
              sched' = [sched EXCEPT !.phase = "jobs", !.u = @ + 1, !.i = 0,
                                     !.user_offset = user_offset,
                                     !.last = NoInstr, !.prev = NoPrev]
    /\ UNCHANGED <<WorkerVars, dist>>

\* Lines 132-154: one pass of the body of "for i, job in enumerate(assigned_jobs)".
SchedJob ==
    /\ sched.phase = "jobs"
    /\ sched.i < Len(AssignedJobs)
    /\ LET user_id == dist.users[sched.u]
           job == AssignedJobs[sched.i + 1]
           share_position == job.share_position
           stagger_idx == Min(share_position, Len(STAGGER_RANGES) - 1)
           low == STAGGER_RANGES[stagger_idx + 1][1]
           high == STAGGER_RANGES[stagger_idx + 1][2]
       IN \E r \in RandInt(120, 300) :
          \E stagger \in IF high > 0 THEN RandInt(low, high) ELSE {0} :
            LET base_delay == r * (sched.i + 1)
                delay_seconds == sched.user_offset + base_delay + stagger
                instr == [user_id |-> user_id, job_id |-> job.jobId, i |-> sched.i,
                          base_delay |-> base_delay,
                          share_position |-> share_position, stagger |-> stagger,
                          delay_seconds |-> delay_seconds]
            IN sched' = [sched EXCEPT
                  !.i = @ + 1,
                  !.queued = @ (+) SetToBag({<<user_id, job.jobId>>}),
                  !.total_queued = @ + 1,
                  !.prev = [i |-> sched.last.i, base_delay |-> sched.last.base_delay],
                  !.last = instr,
                  !.seen = IF job.jobId = sched.watch
                           THEN @ \cup {[user_id |-> user_id,
                                         share_position |-> share_position,
                                         delay_seconds |-> delay_seconds]}
                           ELSE @]
    /\ UNCHANGED <<WorkerVars, dist>>

-----------------------------------------------------------------------------
(* Specifications *)

Init == WorkerInit /\ dist = DistIdle /\ sched = SchedIdle

Next ==
    \/ \E u \in UserIds, j \in JobIds : Enqueue(u, j)
    \/ \E w \in Workers : Start(w)
    \/ \E w \in Workers : Fetch(w)
    \/ \E w \in Workers : CheckDup(w)
    \/ \E w \in Workers : Compose(w)
    \/ \E w \in Workers : Decrypt(w)
    \/ \E w \in Workers : Send(w)
    \/ \E w \in Workers : LogApp(w)
    \/ \E w \in Workers : UpdateJob(w)
    \/ \E w \in Workers : UpdateUser(w)
    \/ \E w \in Workers : Except(w)
    \/ \E p \in Pairs : LockExpire(p)

\* Workers that finish every invocation before its lock expires, and do not die.
Spec == Init /\ [][Next]_vars

\* The same workers on the instructions of one pair, where a worker may die at
\* any step and an invocation may outlive the TTL of its lock.
FaultyNext ==
    \/ Enqueue("u1", "j1")
    \/ \E w \in Workers : Start(w)
    \/ \E w \in Workers : Fetch(w)
    \/ \E w \in Workers : CheckDup(w)
    \/ \E w \in Workers : Compose(w)
    \/ \E w \in Workers : Decrypt(w)
    \/ \E w \in Workers : Send(w)
    \/ \E w \in Workers : LogApp(w)
    \/ \E w \in Workers : UpdateJob(w)
    \/ \E w \in Workers : UpdateUser(w)
    \/ \E w \in Workers : Except(w)
    \/ \E p \in Pairs : LockExpire(p)
    \/ \E w \in Workers : Crash(w)
    \/ \E p \in Pairs : LockExpireHeld(p)

SpecFaulty == Init /\ [][FaultyNext]_vars

\* One worker process on the instructions of one pair; the process may die at
\* any step and is started again, and Redis guarantees that a key with a TTL
\* does expire.
CrashNext ==
    \/ Enqueue("u1", "j1")
    \/ Start(1)
    \/ Fetch(1)
    \/ CheckDup(1)
    \/ Compose(1)
    \/ Decrypt(1)
    \/ Send(1)
    \/ LogApp(1)
    \/ UpdateJob(1)
    \/ UpdateUser(1)
    \/ Except(1)
    \/ Crash(1)
    \/ \E p \in Pairs : LockExpire(p)

SpecCrash == Init /\ [][CrashNext]_vars /\ \A p \in Pairs : WF_vars(LockExpire(p))

\* One call of distribute on each of the inputs.
DistInit ==
    WorkerInit /\ db /\ sched = SchedIdle /\ \E in \in DistInputs : dist = Called(in)

DistNext == Distribute \/ Round \/ UserStep \/ DistReturn

SpecDist == DistInit /\ [][DistNext]_vars

\* A call of distribute runs on: the interpreter keeps executing its statements.
SpecDistLive == SpecDist /\ WF_vars(DistNext)

\* One category of a run of main: distribute is called and its result queued, one
\* job of the call being watched.
SchedInit ==
    /\ WorkerInit /\ db
    /\ \E in \in SchedInputs :
          /\ dist = Called(in)
          /\ \E watch \in 1..Len(in.jobs) :
                sched = [SchedIdle EXCEPT !.phase = "wait", !.watch = watch]

SchedNext == Distribute \/ Round \/ UserStep \/ DistReturn \/ SchedUser \/ SchedJob

SpecSched == SchedInit /\ [][SchedNext]_vars

-----------------------------------------------------------------------------
(* Properties of the send worker *)

RECURSIVE Sum(_, _)
Sum(f, S) == IF S = {} THEN 0
             ELSE LET x == CHOOSE y \in S : TRUE IN f[x] + Sum(f, S \ {x})

Row(p, status) == [userId |-> p[1], jobId |-> p[2], status |-> status]
SentRows(p) == CopiesIn(Row(p, "sent"), applications)
FailedRows(p) == CopiesIn(Row(p, "failed"), applications)
RowCount(p) == SentRows(p) + FailedRows(p)
NoneRunning(p) == ~\E w \in Workers : Running(w) /\ PairOf(w) = p
LastPair == <<last.userId, last.jobId>>

C2_AtMostOnceDelivery == \A p \in Pairs : sent[p] <= 1

C4_RetryBackoff ==
    /\ \A m \in BagToSet(broker) :
          /\ m.retries <= MAX_RETRIES
          /\ m.retries > 0 => m.countdown = 60 * Pow2(m.retries - 1)
    /\ last.status = "retry" => last.retries < MAX_RETRIES
    /\ (db /\ last.reason = "max_retries")
          => last.status = "failed" /\ FailedRows(LastPair) >= 1

\* C5: a requeued invocation makes a new attempt: it is not skipped, unless the
\* pair has been sent meanwhile or another invocation of the pair is running.
C5_RetryAttemptsAgain ==
    (last.retries > 0 /\ last.status = "skipped")
        => SentRows(LastPair) >= 1 \/ ~NoneRunning(LastPair)

\* C6: while an invocation whose transport failure was not an authentication
\* failure is on its way to be requeued, the ledger holds no row of its pair.
C6_NoRowOnTransientFailure ==
    \A w \in Workers :
        (wk[w].pc = "except" /\ wk[w].exc \notin {"", "none"}
             /\ ~RetriesExceeded(wk[w].retries))
          => RowCount(PairOf(w)) = 0

\* The number of invocations at one of the steps pcs for pair p.
At(p, pcs) == Cardinality({w \in Workers : wk[w].pc \in pcs /\ PairOf(w) = p})

\* C7: the invocations the transport accepted, and no others, end SUCCESS; each
\* has written one sent row, added 1 to job.applicationCount and its user to
\* job.appliedByUsers, and added 1 to the user's applicationsToday and
\* applicationsTotal; nothing else changes these documents.
C7_SuccessEffects ==
    /\ last.status # "" => (last.status = "success" <=> last.exc = "none")
    /\ \A p \in Pairs :
          SentRows(p) = ended[p].success + At(p, {"update_job", "update_user"})
    /\ \A j \in JobIds :
        /\ jobs[j].applicationCount =
              Sum([u \in UserIds |-> ended[<<u, j>>].success
                                       + At(<<u, j>>, {"update_user"})], UserIds)
        /\ jobs[j].appliedByUsers =
              {u \in UserIds : ended[<<u, j>>].success
                                 + At(<<u, j>>, {"update_user"}) > 0}
    /\ \A u \in UserIds :
        /\ users[u].applicationsToday =
              Sum([j \in JobIds |-> ended[<<u, j>>].success], JobIds)
        /\ users[u].applicationsTotal = users[u].applicationsToday

\* A send has succeeded for one pair while an instruction of another pair of the
\* same job ended in a failure.
C7_Witness ==
    /\ last.status = "success"
    /\ jobs[last.jobId].applicationCount = 1
    /\ jobs[last.jobId].appliedByUsers = {last.userId}
    /\ users[last.userId].applicationsTotal = 1
    /\ \E u \in UserIds : u # last.userId /\ ended[<<u, last.jobId>>].faulted

\* C8: an invocation that meets a missing user or job, an invalid recruiter
\* email or a missing or undecryptable credential ends FAILED without having
\* called the transport, and one whose transport raised an authentication
\* error ends FAILED(smtp_auth); none of them asks for a retry.
C8_PermanentNeverRetried ==
    /\ last.reason \in {"user_not_found", "job_not_found", "no_recruiter_email",
                        "smtp_password_missing", "smtp_password_decrypt_failed"}
          => last.status = "failed" /\ last.exc = ""
    /\ last.exc = "SMTPAuthenticationError"
          => last.status = "failed" /\ last.reason = "smtp_auth"

-----------------------------------------------------------------------------
(* Properties of distribute *)

\* The number of entries of job_id in the list of user u.
Occurrences(u, job_id) ==
    Cardinality({i \in 1..Len(dist.assignments[u]) : dist.assignments[u][i].jobId = job_id})

\* The number of entries of job_id over all lists.
Appearances(job_id) ==
    Sum([u \in DOMAIN dist.assignments |-> Occurrences(u, job_id)], DOMAIN dist.assignments)

InputJobIds == {dist.input[k].jobId : k \in 1..Len(dist.input)}

\* C9: in the output of distribute every job appears in at most sharingFactor
\* lists, where sharingFactor is 1 when len(jobs) / len(users) >= 15 and
\* min(ceil(15 / ratio), 3) otherwise; so in at most 3 lists.
C9_NoDoubleShare ==
    dist.phase = "done" =>
        LET U == Len(dist.users)
            J == Len(dist.input)
            sharingFactor == IF U = 0 \/ J = 0 THEN 0
                             ELSE IF J >= 15 * U THEN 1
                             ELSE Min(CeilDiv(15 * U, J), 3)
        IN \A job_id \in InputJobIds :
              Appearances(job_id) <= sharingFactor /\ Appearances(job_id) <= 3

\* A shortage call has ended with a job in the lists of sharingFactor = 3 users
\* and not in the list of a fourth.
C9_Witness ==
    /\ dist.phase = "done"
    /\ dist.sharing_factor = 3
    /\ \E job_id \in InputJobIds :
          /\ Appearances(job_id) = 3
          /\ \E u \in DOMAIN dist.assignments : Occurrences(u, job_id) = 0

\* C10: in the output of distribute no list holds the same job twice.
C10_NoDuplicatePair ==
    dist.phase = "done" =>
        \A u \in DOMAIN dist.assignments :
            \A job_id \in InputJobIds : Occurrences(u, job_id) <= 1

\* A sharing call has ended in which a user holds several jobs, one of them a
\* job that still has a slot left.
C10_Witness ==
    /\ dist.phase = "done"
    /\ dist.sharing_factor > 1
    /\ \E u \in DOMAIN dist.assignments :
          /\ Len(dist.assignments[u]) >= 2
          /\ \E i \in 1..Len(dist.assignments[u]) :
                dist.job_slots[dist.assignments[u][i].jobId] > 0

\* C11: a job whose appliedByUsers held a user when distribute was called is
\* not in that user's list at return.
C11_HistoricalExclusion ==
    dist.phase = "done" =>
        \A k \in 1..Len(dist.input) :
            \A u \in dist.input[k].appliedByUsers \cap DOMAIN dist.assignments :
                Occurrences(u, dist.input[k].jobId) = 0

\* A call has ended in which a user who had applied to a job before was given
\* another job, while the job of the earlier application still had a slot.
C11_Witness ==
    /\ dist.phase = "done"
    /\ \E k \in 1..Len(dist.input) :
          \E u \in dist.input[k].appliedByUsers :
              /\ dist.job_slots[dist.input[k].jobId] > 0
              /\ Len(dist.assignments[u]) >= 1
              /\ Len(dist.assignments[u]) < dist.target_per_user

\* No job of the call had an applicant when distribute was called.
NoHistory == \A k \in 1..Len(dist.input) : dist.input[k].appliedByUsers = {}

\* C12: when len(jobs) / len(users) < 15, no user has applied to any job before
\* and there are at least sharingFactor users, every job is in the lists of
\* exactly sharingFactor = min(ceil(15 / ratio), 3) distinct users at return (so
\* 10 users and 5 jobs give 15 assignments, 3 users and 9 jobs give 27).
C12_ShortageMode ==
    LET U == Len(dist.users)
        J == Len(dist.input)
    IN (dist.phase = "done" /\ NoHistory /\ U > 0 /\ J > 0 /\ J < 15 * U
            /\ U >= Min(CeilDiv(15 * U, J), 3))
          => \A job_id \in InputJobIds :
                /\ Appearances(job_id) = Min(CeilDiv(15 * U, J), 3)
                /\ \A u \in DOMAIN dist.assignments : Occurrences(u, job_id) <= 1

\* C13: when len(jobs) / len(users) >= 20 and no user has applied to any job
\* before, every user's list holds exactly 20 jobs at return, each with share
\* position 0, and no job is in two lists.
C13_SurplusMode ==
    LET U == Len(dist.users)
        J == Len(dist.input)
    IN (dist.phase = "done" /\ NoHistory /\ U > 0 /\ J >= 20 * U)
          => /\ \A u \in DOMAIN dist.assignments :
                  /\ Len(dist.assignments[u]) = 20
                  /\ \A i \in 1..Len(dist.assignments[u]) :
                        dist.assignments[u][i].share_position = 0
             /\ \A job_id \in InputJobIds : Appearances(job_id) <= 1

\* The call with 2 users and 50 jobs has returned.
C13_Witness ==
    /\ dist.phase = "done"
    /\ NoHistory
    /\ Len(dist.users) = 2
    /\ Len(dist.input) = 50
    /\ \A u \in DOMAIN dist.assignments : Len(dist.assignments[u]) = 20

-----------------------------------------------------------------------------
(* Properties of the queueing loop *)

\* C14: the stagger of a queued instruction is 0 at share position 0, within
\* [3h, 4h] at share position 1 and within [6h, 8h] at share position 2 or more.
C14_StaggerBounds ==
    sched.last # NoInstr =>
        LET tier == Min(sched.last.share_position, 2)
            stagger == sched.last.stagger
        IN /\ tier = 0 => stagger = 0
           /\ tier = 1 => 3 * 3600 <= stagger /\ stagger <= 4 * 3600
           /\ tier = 2 => 6 * 3600 <= stagger /\ stagger <= 8 * 3600

\* An instruction of share position 2 has been queued with the largest stagger.
C14_Witness ==
    /\ sched.last.share_position = 2
    /\ sched.last.stagger = 8 * 3600

C16_PositionScaledPacing ==
    (sched.prev # NoPrev /\ sched.last # NoInstr)
        => /\ sched.last.i = sched.prev.i + 1
           /\ sched.prev.base_delay < sched.last.base_delay

\* The bag with one copy of (user, job) per entry of the allocation.
Allocation ==
    [pr \in {<<u, job_id>> \in (DOMAIN dist.assignments) \X InputJobIds :
                    Occurrences(u, job_id) > 0} |-> Occurrences(pr[1], pr[2])]

\* C17: when the loop has ended, one instruction has been queued for each
\* assignment of the allocation and none for any other pair; and each queued
\* instruction has delay user_offset + base_delay + stagger.
C17_OneInstructionPerAssignment ==
    /\ sched.phase = "done"
          => /\ sched.queued = Allocation
             /\ sched.total_queued = BagCardinality(Allocation)
    /\ sched.last # NoInstr
          => /\ sched.last.delay_seconds =
                   sched.user_offset + sched.last.base_delay + sched.last.stagger
             /\ BagIn(<<sched.last.user_id, sched.last.job_id>>, sched.queued)

\* The allocation of 15 jobs to each of 3 users has been queued.
C17_Witness ==
    /\ sched.phase = "done"
    /\ sched.total_queued = 45
    /\ Cardinality(DOMAIN dist.assignments) = 3

-----------------------------------------------------------------------------
(* Further properties of the send worker *)

\* C18: when Firestore is up and an invocation has ended in a terminal failure
\* (user or job not found, invalid recruiter email, credential missing or
\* undecryptable, authentication failure, retries exhausted), system_logs holds
\* an entry of its user.
C18_TerminalFailureLogged ==
    (db /\ last.status = "failed"
        /\ last.reason \in {"user_not_found", "job_not_found", "no_recruiter_email",
                            "smtp_password_missing", "smtp_password_decrypt_failed",
                            "smtp_auth", "max_retries"})
      => \E e \in BagToSet(system_logs) : e.userId = last.userId

\* The invocations that have acquired the lock of p and are still running.
Holders(p) == {w \in Workers : Running(w) /\ wk[w].locked /\ PairOf(w) = p}

\* C19: at any time at most one running invocation has acquired the lock of a
\* pair; and a step in which an invocation ends SKIPPED(duplicate_lock) leaves
\* the ledger, the job and user documents, the error log, the lock and the
\* transport untouched and puts no message on the broker.
C19_LockExclusivity ==
    /\ [](\A p \in Pairs : Cardinality(Holders(p)) <= 1)
    /\ [][last'.reason = "duplicate_lock"
             => /\ last'.status = "skipped"
                /\ UNCHANGED <<applications, jobs, users, system_logs, redis, sent>>
                /\ broker' \sqsubseteq broker]_vars

\* An invocation has just ended SKIPPED(duplicate_lock) while the holder of the
\* lock was between its send and its ledger write.
C19_Witness ==
    /\ last.reason = "duplicate_lock"
    /\ \E w \in Holders(LastPair) : wk[w].pc = "log_app"

-----------------------------------------------------------------------------
(* Further properties of distribute *)

\* The jobCategory of the job job_id of the call.
CategoryOfJob(job_id) ==
    LET k == CHOOSE n \in 1..Len(dist.input) : dist.input[n].jobId = job_id
    IN dist.input[k].jobCategory

\* C20: at return no list of a user holds a job whose jobCategory differs from
\* the user's jobCategory.
C20_CategoryMatch ==
    dist.phase = "done" =>
        \A u \in DOMAIN dist.assignments :
            \A i \in 1..Len(dist.assignments[u]) :
                CategoryOfJob(dist.assignments[u][i].jobId) = dist.user_category[u]

-----------------------------------------------------------------------------
(* Properties of the send worker: counters, dedup and the lock *)

\* C21: once no invocation of a job (of a user) is running, the job's
\* applicationCount (the user's applicationsTotal) equals the number of its
\* invocations that ended SUCCESS and the number of its sent rows, and the job's
\* appliedByUsers is the set of users with a sent row.
C21_NoLostUpdates ==
    /\ \A j \in JobIds :
          (\A u \in UserIds : NoneRunning(<<u, j>>))
            => /\ jobs[j].applicationCount = Sum([u \in UserIds |-> SentRows(<<u, j>>)], UserIds)
               /\ jobs[j].applicationCount =
                     Sum([u \in UserIds |-> ended[<<u, j>>].success], UserIds)
               /\ jobs[j].appliedByUsers = {u \in UserIds : SentRows(<<u, j>>) > 0}
    /\ \A u \in UserIds :
          (\A j \in JobIds : NoneRunning(<<u, j>>))
            => /\ users[u].applicationsTotal = Sum([j \in JobIds |-> SentRows(<<u, j>>)], JobIds)
               /\ users[u].applicationsTotal =
                     Sum([j \in JobIds |-> ended[<<u, j>>].success], JobIds)

\* The invocations of one job for two users have both ended SUCCESS.
C21_Witness ==
    \E j \in JobIds :
        /\ jobs[j].applicationCount = 2
        /\ jobs[j].appliedByUsers = UserIds
        /\ \A u \in UserIds : NoneRunning(<<u, j>>) /\ ended[<<u, j>>].success = 1

\* C22: an invocation at the duplicate check whose pair has a ledger row ends
\* SKIPPED(already_applied) with its next step, which changes no ledger row, no
\* document, no counter and no queue; it has not called the transport.
C22_DurableDedup ==
    /\ [][\A w \in Workers :
            (wk[w].pc = "check_dup" /\ RowCount(PairOf(w)) > 0 /\ wk'[w] # wk[w])
              => /\ wk'[w] = IdleWk
                 /\ last'.status = "skipped"
                 /\ last'.reason = "already_applied"
                 /\ <<last'.userId, last'.jobId>> = PairOf(w)
                 /\ UNCHANGED <<applications, jobs, users, sent, broker, system_logs>>]_vars
    /\ [](last.reason = "already_applied" => last.exc = "")

\* A first-time instruction has ended SKIPPED(already_applied) on the sent row
\* of its pair.
C22_Witness ==
    /\ last.reason = "already_applied"
    /\ last.retries = 0
    /\ SentRows(LastPair) = 1

\* C23: a lock key is set only while the invocation that acquired it is running.
C23_LockReleased == \A p \in Pairs : redis[p] # NoLock => HolderRunning(p)

\* C24: the lock of a pair whose holder has died does expire, so the pair does
\* not stay blocked; and an invocation that starts, with Firestore up, when
\* the key of its pair is not set acquires the lock and goes on to its fetches.
C24_SelfHealingLock ==
    /\ \A p \in Pairs :
          (ended[p].crashed /\ redis[p] # NoLock /\ ~HolderRunning(p)) ~> (redis[p] = NoLock)
    /\ [][\A w \in Workers :
            (db /\ ~Running(w) /\ wk'[w] # wk[w]
                /\ LockFree(<<wk'[w].userId, wk'[w].jobId>>))
              => /\ wk'[w].pc = "fetch"
                 /\ wk'[w].locked
                 /\ redis'[<<wk'[w].userId, wk'[w].jobId>>] = wk'[w].id]_vars

\* After a worker died holding the lock and the key expired, an instruction of
\* the pair has acquired the lock and has reached the transport.
C24_Witness ==
    \E w \in Workers :
        /\ Running(w)
        /\ ended[PairOf(w)].crashed
        /\ sent[PairOf(w)] = 0
        /\ ended[PairOf(w)].skipped > 0
        /\ wk[w].locked
        /\ wk[w].pc = "send"
        /\ Cardinality(Holders(PairOf(w))) = 1

-----------------------------------------------------------------------------
\* C25: with ratio = len(jobs) / len(users), distribute works with
\* sharingFactor = 1 and targetPerUser = 20 when ratio >= 20, with
\* sharingFactor = 1 and targetPerUser = floor(ratio) when 15 <= ratio < 20, and
\* with sharingFactor = min(ceil(15 / ratio), 3) and targetPerUser =
\* min(15, floor(ratio * sharingFactor)) when ratio < 15; and no user's list is
\* ever longer than targetPerUser, which is at most 20.
C25_ModeSelection ==
    LET U == Len(dist.users)
        J == Len(dist.input)
        sf == IF J >= 15 * U THEN 1
              ELSE IF 2 * J >= 15 * U THEN 2
              ELSE 3
        tpu == IF J >= 20 * U THEN 20
               ELSE IF J >= 15 * U THEN J \div U
               ELSE IF (J * sf) \div U >= 15 THEN 15
               ELSE (J * sf) \div U
    IN (dist.phase \in {"while", "for", "done"} /\ U > 0 /\ J > 0)
          => /\ dist.sharing_factor = sf
             /\ dist.target_per_user = tpu
             /\ dist.target_per_user <= 20
             /\ \A u \in DOMAIN dist.assignments :
                   Len(dist.assignments[u]) <= dist.target_per_user

\* A call in shortage has returned with a sharing factor of 3 and a user whose
\* list is as long as the target.
C25_Witness ==
    /\ dist.phase = "done"
    /\ Len(dist.input) < 15 * Len(dist.users)
    /\ dist.sharing_factor = 3
    /\ dist.target_per_user > 0
    /\ \E u \in DOMAIN dist.assignments :
          Len(dist.assignments[u]) = dist.target_per_user

-----------------------------------------------------------------------------
\* The number of entries of all assignment lists of a call in state d.
TotalAssigned(d) ==
    Sum([u \in DOMAIN d.assignments |-> Len(d.assignments[u])], DOMAIN d.assignments)

\* C26: every call of distribute returns; a pass over one user sets the flag
\* exactly when it makes an assignment, a round begins only with the flag set
\* and clears it, and the loop ends as soon as a round has made no assignment;
\* the remaining slot count of a job never increases; and the number of
\* assignments never exceeds sharingFactor * len(jobs).
C26_Termination ==
    /\ <>(dist.phase = "done")
    /\ [][
           /\ dist.phase = "for" =>
               LET before == TotalAssigned(dist)
                   after == TotalAssigned(dist')
               IN /\ after \in {before, before + 1}
                  /\ dist'.changed = (dist.changed \/ after > before)
                  /\ dist'.phase \in {"for", "while"}
           /\ (dist.phase = "while" /\ dist.changed) =>
               /\ dist'.phase = "for"
               /\ ~dist'.changed
               /\ dist'.assignments = dist.assignments
           /\ (dist.phase = "while" /\ ~dist.changed) =>
               /\ dist'.phase = "done"
               /\ dist'.assignments = dist.assignments
           /\ dist.phase \in {"while", "for"} =>
               /\ DOMAIN dist'.job_slots = DOMAIN dist.job_slots
               /\ \A job_id \in DOMAIN dist.job_slots :
                     dist'.job_slots[job_id] <= dist.job_slots[job_id]]_vars
    /\ [](dist.phase \in {"while", "for", "done"} =>
             TotalAssigned(dist) <= dist.sharing_factor * Len(dist.input))

\* A call has returned after rounds that gave some user two jobs or more, with
\* every slot of every job taken and a last round that assigned nothing.
C26_Witness ==
    /\ dist.phase = "done"
    /\ ~dist.changed
    /\ Len(dist.input) > 0
    /\ \E u \in DOMAIN dist.assignments : Len(dist.assignments[u]) >= 2
    /\ TotalAssigned(dist) = dist.sharing_factor * Len(dist.input)

-----------------------------------------------------------------------------
\* The entries of all assignment lists, each with the user whose list holds it.
Cells ==
    UNION {{[uid |-> u, entry |-> dist.assignments[u][i]] :
              i \in 1..Len(dist.assignments[u])} : u \in DOMAIN dist.assignments}

Entries == {c.entry : c \in Cells}

\* The jobs that are in some list.
AssignedJobIds == {e.jobId : e \in Entries}

\* C27: all entries of one job carry the same share group and entries of
\* different jobs carry different groups, the groups in use being 1..n for n
\* assigned jobs; the share positions of a job in k lists are exactly 0..k-1,
\* each once; and the entry a step appends carries as its position the number
\* of users who held the job before, and as its group the job's group or, for a
\* job assigned for the first time, the next number after the groups in use.
C27_ShareMetadata ==
    /\ [](dist.phase \in {"while", "for", "done"} =>
             LET cells == Cells
                 job_ids == {c.entry.jobId : c \in cells}
             IN /\ \A u \in DOMAIN dist.assignments :
                      Cardinality({c \in cells : c.uid = u}) = Len(dist.assignments[u])
                /\ {c.entry.share_group : c \in cells} = 1..Cardinality(job_ids)
                /\ \A job_id \in job_ids :
                      LET of_job == {c \in cells : c.entry.jobId = job_id}
                      IN /\ Cardinality({c.entry.share_group : c \in of_job}) = 1
                         /\ Cardinality({c.uid : c \in of_job}) = Cardinality(of_job)
                         /\ {c.entry.share_position : c \in of_job}
                               = 0..(Cardinality(of_job) - 1))
    /\ [][\A u \in DOMAIN dist.assignments :
             (dist.phase = "for" /\ dist'.assignments[u] # dist.assignments[u]) =>
                LET e == dist'.assignments[u][Len(dist'.assignments[u])]
                IN /\ dist'.assignments[u] = Append(dist.assignments[u], e)
                   /\ e.share_position = Appearances(e.jobId)
                   /\ e.share_group =
                         IF e.jobId \in AssignedJobIds
                         THEN (CHOOSE x \in Entries : x.jobId = e.jobId).share_group
                         ELSE Cardinality(AssignedJobIds) + 1]_vars

\* A call has returned with a job shared by three users at positions 0, 1 and
\* 2, and with a second share group.
C27_Witness ==
    /\ dist.phase = "done"
    /\ \E job_id \in AssignedJobIds :
          /\ Appearances(job_id) = 3
          /\ {e.share_position : e \in {x \in Entries : x.jobId = job_id}} = {0, 1, 2}
    /\ \E e \in Entries : e.share_group = 2

-----------------------------------------------------------------------------
\* C28: while the instructions of a user are queued, the offset drawn for the
\* user lies in [0, 600) and stays the same, and the delay of every instruction
\* of the user is that offset plus its base delay and its stagger.
C28_UserOffset ==
    /\ [](sched.phase = "jobs" =>
             /\ 0 <= sched.user_offset /\ sched.user_offset < 600
             /\ sched.last # NoInstr =>
                   sched.last.delay_seconds
                       = sched.user_offset + sched.last.base_delay + sched.last.stagger)
    /\ [][(sched.phase = "jobs" /\ sched'.phase = "jobs" /\ sched'.u = sched.u)
             => sched'.user_offset = sched.user_offset]_vars

-----------------------------------------------------------------------------
\* C29: a call with at least one user and at least one job, none of the users
\* having applied to any of the jobs before, returns at least one assignment.
C29_NoStarvation ==
    (dist.phase = "done" /\ NoHistory /\ Len(dist.users) >= 1 /\ Len(dist.input) >= 1)
        => \E u \in DOMAIN dist.assignments : Len(dist.assignments[u]) >= 1

-----------------------------------------------------------------------------
\* User v could be given a job now: v is below the target and some job has a
\* free slot and is not yet v's.
AbleToTake(v) ==
    /\ dist.user_counts[v] < dist.target_per_user
    /\ \E k \in 1..Len(dist.jobs) :
          /\ ~NoSlotsLeft(dist.job_slots, dist.jobs[k].jobId)
          /\ ~AlreadyApplied(v, dist.jobs[k])

\* C30: when no user has applied to any job before, the list lengths of any two
\* users differ by at most 1 after every round and at return; and a user is
\* given a further job only when no user who could be given one has fewer.
C30_BalancedShares ==
    /\ []((NoHistory /\ dist.phase \in {"while", "done"}) =>
             \A u, v \in DOMAIN dist.assignments :
                 Len(dist.assignments[u]) <= Len(dist.assignments[v]) + 1)
    /\ [][(NoHistory /\ dist.phase = "for") =>
             \A u \in DOMAIN dist.assignments :
                 Len(dist'.assignments[u]) > Len(dist.assignments[u]) =>
                     \A v \in DOMAIN dist.assignments :
                         AbleToTake(v) =>
                             Len(dist.assignments[v]) >= Len(dist.assignments[u])]_vars

\* A call without history has returned after several rounds in which jobs were
\* shared among three users or more, with slots left over.
C30_Witness ==
    /\ dist.phase = "done"
    /\ NoHistory
    /\ Len(dist.users) >= 3
    /\ dist.sharing_factor > 1
    /\ \A u \in DOMAIN dist.assignments : Len(dist.assignments[u]) >= 2
    /\ TotalAssigned(dist) < dist.sharing_factor * Len(dist.input)

====
